---- MODULE Spec2Model ----
(***************************************************************************)
(* Model of the RAG pipeline of the OpenTelemetry AI chatbot:              *)
(*   - OpenSearchVectorStore (services/vectorStore.js): initialize,        *)
(*     createIndexIfNotExists, addDocuments, similaritySearchWithScore,    *)
(*     deleteCollection, against an OpenSearch server holding one index;   *)
(*   - RAGService (services/ragService.js): generateResponse, askQuestion, *)
(*     getContextForQuestion, generateStreamingResponse, formatContext,    *)
(*     extractSources;                                                     *)
(*   - LLMProviderService.getProvider (services/llmProvider.js);           *)
(*   - the chat routes POST /api/chat, GET /api/chat/context and           *)
(*     POST /api/chat/stream (routes/chat.js);                             *)
(*   - VectorStoreService (services/vectorStoreChroma.js), the Chroma      *)
(*     store kept beside the OpenSearch one, called directly.              *)
(*                                                                         *)
(* Under Spec and SpecIngest one request is in flight at a time; under     *)
(* SpecConcurrent two calls of initialize() and deleteCollection() overlap *)
(* on the one store object.  Every `await` of an external call             *)
(* (OpenSearch, embedding model, chat model) is one step whose outcome is  *)
(* chosen by the environment; the synchronous code between two awaits,     *)
(* including the chain of catch blocks an exception runs through, belongs  *)
(* to the step that precedes it.                                           *)
(*                                                                         *)
(* Strings are sequences of tokens, so that concatenation (error wrapping, *)
(* context formatting) is modelled by what it builds.  Scores are in       *)
(* tenths: the raw score 9 stands for 0.9 and One for 1.                   *)
(***************************************************************************)
EXTENDS Integers, Sequences, FiniteSets, TLC

\* ------------------------------------------------------------------ bounds
MaxK == 2
MaxIndex == 4
MaxFragments == 2
MaxDocs == 2
MaxChunks == 2

\* ------------------------------------------------------- program constants
One == 10
Dimension == 1536
Sentinel == "No relevant context found in the knowledge base."
Delimiter == "\n\n---\n\n"
WrapPrefix == "Failed to generate response: "
Unknown == "unknown"

\* ------------------------------------------------------------- value sets
NoSource == ""
Sources == {"otel-docs-instrumentation", "ai-workshop"}
RawScores == {7, 9}
Null == "null"
RegisteredProviders == <<"bedrock">>
ProviderNames == {Null, "bedrock", "openai"}
DefaultProviders == {"bedrock", "cohere"}
Ks == 0..MaxK
NoResult == [status |-> "none"]
NoRequest == [kind |-> "none"]
NoHttp == [status |-> 0]
NoId == <<>>
NaN == 0 - 1
NoDimension == 0
\* The vector length of the two embedding models initialize() can construct
\* (text-embedding-ada-002, amazon.titan-embed-text-v1).
EmbeddingDimension == Dimension
\* The `dimension` an index found on the server may have been created with.
IndexDimensions == {Dimension, 768}
\* The requests served at the same time by one store object.
Procs == {1, 2}
\* The two store classes of the repository; the OpenSearch one is the
\* vectorStore.js the services import.
Stores == {"opensearch", "chroma"}
NoTask ==
  [op |-> "none", pc |-> "idle", outcome |-> "none", created |-> FALSE,
   error |-> [name |-> "none", message |-> <<>>]]
\* chunk.content of the chunks the chat model streams: '', 'a', 'bc'.
FragmentTexts == {<<>>, <<"a">>, <<"b", "c">>}

\* Errors the external collaborators can raise.
ConnErr == [name |-> "ConnectionError", message |-> <<"connect ECONNREFUSED">>]
BadQueryErr == [name |-> "ResponseError", message |-> <<"search_phase_execution_exception">>]
EmbedErr == [name |-> "ThrottlingException", message |-> <<"embedding quota exceeded">>]
LLMErr == [name |-> "ValidationException", message |-> <<"model invocation failed">>]

\* The records the index may hold when the process starts: chunks of one
\* earlier document per source, the last one ingested without a source.
SeedSource(i) ==
  IF i = 4 THEN NoSource ELSE IF i % 2 = 1 THEN "otel-docs-instrumentation" ELSE "ai-workshop"

SeedIndex ==
  [i \in 1..MaxIndex |->
     [source |-> SeedSource(i), document_id |-> <<"seed", SeedSource(i)>>,
      chunk_index |-> (i - 1) \div 2, chunk_total |-> (MaxIndex + 1) \div 2]]

VARIABLES
  defaultProvider,  \* config.llm.defaultProvider
  store,            \* the class behind services/vectorStore.js: "opensearch" | "chroma"
  initialized,      \* OpenSearchVectorStore.initialized
  indexExists,      \* server: the index exists
  index,            \* server: the records of the index, in insertion order
  dimension,        \* server: the dimension of the index's knn_vector field
  tasks,            \* the store calls in progress when requests overlap
  pc,               \* position of the request in flight
  req,              \* the request in flight
  ret,              \* where initialize() returns to
  calls,            \* external calls made for the request, in order
  hits,             \* response.body.hits.hits of the k-NN search, as the server answered
  relevantDocs,     \* result of similaritySearchWithScore: <<[doc, score]>>
  searched,         \* "no" | "ok" | "failed": outcome of the k-NN search
  formattedContext, \* result of formatContext, or <<>> before it ran
  prompt,           \* what the chat model was invoked with
  result,           \* what the entrypoint returned or threw
  http,             \* what the route answered (res.status().json())
  events,           \* events yielded by generateStreamingResponse, in order
  pending,          \* the generator is suspended at a yield, its event not yet taken
  pulled,           \* fragments pulled from the chat model's stream
  totalTokens,      \* generateStreamingResponse's totalTokens
  frames,           \* SSE frames written by POST /stream (res.write)
  resEnded,         \* res.end() was called
  clientConnected,  \* the HTTP client of POST /stream is still connected
  processedDocs,    \* addDocuments: the chunk documents built from the input
  embedded,         \* addDocuments: chunks embedded so far (bulkBody.length / 2)
  erroredDocuments  \* addDocuments: the failed items collected from the bulk response

storeVars == <<defaultProvider, store, initialized, indexExists, index, dimension, tasks>>
reqVars == <<pc, req, ret, calls, hits, relevantDocs, searched, formattedContext, prompt, result, http>>
yieldVars == <<events, pending>>
genVars == <<pulled, totalTokens, frames, resEnded, clientConnected>>
addVars == <<processedDocs, embedded, erroredDocuments>>
vars == <<storeVars, reqVars, yieldVars, genVars, addVars>>

\* ------------------------------------------------------------ pure helpers
RECURSIVE Flatten(_)
Flatten(ss) == IF ss = <<>> THEN <<>> ELSE Head(ss) \o Flatten(Tail(ss))

RECURSIVE Join(_, _)
Join(ss, sep) ==
  IF ss = <<>> THEN <<>>
  ELSE IF Len(ss) = 1 THEN Head(ss)
  ELSE Head(ss) \o <<sep>> \o Join(Tail(ss), sep)

Min(a, b) == IF a < b THEN a ELSE b

\* score.toFixed(3): the score in thousandths.
toFixed3(score) == <<"fixed3", score * 100>>

\* One retrieved entry given the score the server reported, as it is.
HitToDoc_KeepsRaw(hit) ==
  [doc |-> [pageContent |-> hit.content, source |-> hit.source],
   score |-> hit.raw]

\* One retrieved entry: `const score = 1 - (hit._score || 0); return [doc, score]`.
HitToDoc(hit) ==
  [doc |-> [pageContent |-> hit.content, source |-> hit.source],
   score |-> One - hit.raw]

\* response.body.hits.hits.map(...): order of the hits kept.
MapHits(hitList) == [i \in 1..Len(hitList) |-> HitToDoc(hitList[i])]

\* formatContext without its empty-result branch.
formatContext_NoSentinel(docs) ==
  Join([i \in 1..Len(docs) |->
          <<"Source: ", (IF docs[i].doc.source # NoSource THEN docs[i].doc.source ELSE Unknown),
            " (Relevance: ">> \o toFixed3(docs[i].score) \o <<")\n", docs[i].doc.pageContent>>],
       Delimiter)

\* formatContext leaving out the results whose score is above a threshold.
formatContext_DropsLowScores(docs) ==
  LET kept == SelectSeq(docs, LAMBDA d : d.score < 3)
  IN  IF Len(kept) = 0 THEN <<Sentinel>>
      ELSE Join([i \in 1..Len(kept) |->
                  <<"Source: ", (IF kept[i].doc.source # NoSource THEN kept[i].doc.source ELSE Unknown),
                    " (Relevance: ">> \o toFixed3(kept[i].score) \o <<")\n", kept[i].doc.pageContent>>],
                Delimiter)

\* RAGService.formatContext
formatContext(docs) ==
  IF Len(docs) = 0 THEN <<Sentinel>>
  ELSE Join([i \in 1..Len(docs) |->
              <<"Source: ", (IF docs[i].doc.source # NoSource THEN docs[i].doc.source ELSE Unknown),
                " (Relevance: ">> \o toFixed3(docs[i].score) \o <<")\n", docs[i].doc.pageContent>>],
            Delimiter)

\* RAGService.extractSources: a Set filled in result order, falsy sources skipped.
RECURSIVE extractSourcesFrom(_, _)
extractSourcesFrom(docs, acc) ==
  IF docs = <<>> THEN acc
  ELSE LET s == Head(docs).doc.source
       IN  extractSourcesFrom(Tail(docs),
             IF s # NoSource /\ ~(\E i \in 1..Len(acc) : acc[i] = s) THEN Append(acc, s) ELSE acc)

\* The source of every result, one entry per result.
extractSources_KeepsDuplicates(docs) == [i \in 1..Len(docs) |-> docs[i].doc.source]

extractSources(docs) == extractSourcesFrom(docs, <<>>)

\* LLMProviderService.getProvider: providers.get(providerName) is defined.
\* The default parameter applies to undefined only, so null is looked up as is.
ProviderAvailable(providerName) ==
  \E i \in 1..Len(RegisteredProviders) : RegisteredProviders[i] = providerName

ProviderErr(providerName) ==
  [name |-> "Error",
   message |-> <<"LLM provider '", providerName, "' not available. Available providers: ">>
               \o RegisteredProviders]

\* `providerName || llmProvider.getAvailableProviders()[0]`
actualProvider(providerName) ==
  IF providerName # Null THEN providerName ELSE RegisteredProviders[1]

\* catch block of generateResponse / similaritySearchWithScore / initialize /
\* getContextForQuestion: log, then `throw error`.
Rethrow(error) == error

\* askQuestion's catch block losing the cause's message.
askQuestionCatch_DropsMessage(error) ==
  [name |-> "Error", message |-> <<WrapPrefix>>]

\* catch block of askQuestion.
askQuestionCatch(error) ==
  [name |-> "Error", message |-> <<WrapPrefix>> \o error.message]

\* The value of generateResponse with the relevance scores in reverse order.
generateResponseResult_ReversedScores(docs, response, providerName) ==
  [response |-> response,
   context |-> [documentsUsed |-> Len(docs),
                sources |-> extractSources(docs),
                relevanceScores |-> [i \in 1..Len(docs) |->
                   [source |-> (IF docs[i].doc.source # NoSource THEN docs[i].doc.source ELSE Unknown),
                    score |-> docs[Len(docs) + 1 - i].score]]],
   metadata |-> [provider |-> actualProvider(providerName)]]

\* The value generateResponse returns.
generateResponseResult(docs, response, providerName) ==
  [response |-> response,
   context |-> [documentsUsed |-> Len(docs),
                sources |-> extractSources(docs),
                relevanceScores |-> [i \in 1..Len(docs) |->
                   [source |-> (IF docs[i].doc.source # NoSource THEN docs[i].doc.source ELSE Unknown),
                    score |-> docs[i].score]]],
   metadata |-> [provider |-> actualProvider(providerName)]]

\* The value askQuestion returns.
askQuestionResult(full, includeContext) ==
  IF ~includeContext
  THEN [response |-> full.response,
        sources |-> full.context.sources,
        metadata |-> [provider |-> full.metadata.provider]]
  ELSE full

\* The hit lists the server can answer a k-NN query with: at most k distinct
\* records of the index, best raw score first.
Injective(f) == \A i, j \in DOMAIN f : i # j => f[i] # f[j]
NonIncreasing(f) == \A i, j \in DOMAIN f : i < j => f[i] >= f[j]

HitLists(k) ==
  LET lens == 0..Min(k, Len(index))
  IN  UNION { { [i \in 1..l |-> [content |-> <<"chunk", index[p[i]].document_id, index[p[i]].chunk_index>>,
                                 source |-> index[p[i]].source,
                                 raw |-> s[i]]] :
                  p \in {q \in [1..l -> 1..Len(index)] : Injective(q)},
                  s \in {t \in [1..l -> RawScores] : NonIncreasing(t)} } : l \in lens }

\* ------------------------------------------------------- streaming events
\* `const content = chunk.content || chunk`: the text when it is non-empty,
\* else the chunk object itself (isString = FALSE).
ContentOf(chunk) ==
  IF chunk.content # <<>> THEN [isString |-> TRUE, text |-> chunk.content]
  ELSE [isString |-> FALSE, text |-> chunk.content]

\* `content.length`: undefined for a chunk object.
LengthOf(content) == IF content.isString THEN Len(content.text) ELSE NaN

\* `totalTokens += content.length`
AddTokens(total, length) == IF total = NaN \/ length = NaN THEN NaN ELSE total + length

MetadataEvent(docs, providerName) ==
  [type |-> "metadata",
   data |-> [documentsUsed |-> Len(docs),
             sources |-> extractSources(docs),
             provider |-> actualProvider(providerName)]]

ContentEvent(content) == [type |-> "content", data |-> content]

DoneEvent(total) == [type |-> "done", data |-> [tokensGenerated |-> total]]

ErrorEvent(error) == [type |-> "error", data |-> [message |-> error.message]]

\* res.write(`data: ${JSON.stringify(chunk)}\n\n`)
Frame(event) == <<"data: ", event, "\n\n">>

\* ------------------------------------------------------------------- Init
Init ==
  /\ defaultProvider \in DefaultProviders
  /\ store \in Stores
  /\ initialized = FALSE
  /\ indexExists \in BOOLEAN
  /\ index \in (IF indexExists THEN {<<>>, SeedIndex} ELSE {<<>>})
  /\ dimension \in (IF indexExists THEN IndexDimensions ELSE {NoDimension})
  /\ tasks = [p \in Procs |-> NoTask]
  /\ pc = "idle"
  /\ req = NoRequest
  /\ ret = "none"
  /\ calls = <<>>
  /\ hits = <<>>
  /\ relevantDocs = <<>>
  /\ searched = "no"
  /\ formattedContext = <<>>
  /\ prompt = <<>>
  /\ result = NoResult
  /\ http = NoHttp
  /\ events = <<>>
  /\ pending = FALSE
  /\ pulled = 0
  /\ totalTokens = 0
  /\ frames = <<>>
  /\ resEnded = FALSE
  /\ clientConnected = FALSE
  /\ processedDocs = <<>>
  /\ embedded = 0
  /\ erroredDocuments = <<>>

\* `if (!this.initialized) { await this.initialize(); }` at the head of
\* addDocuments, similaritySearchWithScore and getCollectionInfo.
EnterStore(next) == IF initialized THEN next ELSE "init_info"

\* res.status(500).json({success: false, error: ..., message: error.message})
HttpError(error) == [status |-> 500, message |-> error.message]

\* res.json({success: true, data: ...})
HttpOk(value) == [status |-> 200, data |-> value]

\* generateStreamingResponse's catch block ending the stream silently.
StreamCatch_Silent(error) == <<>>

\* catch block of generateStreamingResponse: `yield {type: 'error', ...}`.
StreamCatch(error) == <<ErrorEvent(error)>>

\* An exception leaves the step that raised it and runs through the catch
\* blocks of the callers up to the entrypoint of the request in flight.
\*   ask:     similaritySearchWithScore / generateResponse rethrow,
\*            askQuestion wraps, POST /api/chat answers 500;
\*   context: getContextForQuestion rethrows, GET /context answers 500;
\*   stream:  generateStreamingResponse catches, yields an `error` event
\*            and ends.
Raise(error) ==
  IF req.kind = "stream"
  THEN /\ events' = events \o StreamCatch(Rethrow(error))
       /\ pending' = (StreamCatch(Rethrow(error)) # <<>>)
       /\ pc' = "gen_end"
       /\ result' = [status |-> "caught", raised |-> error]
       /\ UNCHANGED http
  ELSE /\ pc' = "finished"
       /\ result' = [status |-> "thrown",
                     raised |-> error,
                     inner |-> Rethrow(error),
                     error |-> (IF req.kind = "ask" THEN askQuestionCatch(Rethrow(error))
                                ELSE Rethrow(error))]
       /\ http' = (IF req.viaRoute
                   THEN HttpError(IF req.kind = "ask" THEN askQuestionCatch(Rethrow(error))
                                  ELSE Rethrow(error))
                   ELSE http)
       /\ UNCHANGED yieldVars

\* ragService.askQuestion(question, options), called directly.
StartAsk ==
  \E p \in ProviderNames, k \in Ks, inc \in BOOLEAN :
    /\ pc = "idle"
    /\ store = "opensearch"
    /\ req' = [kind |-> "ask", provider |-> p, k |-> k, includeContext |-> inc, viaRoute |-> FALSE]
    /\ pc' = EnterStore("embed")
    /\ ret' = "embed"
    /\ UNCHANGED <<storeVars, calls, hits, relevantDocs, searched, formattedContext, prompt, result, http,
                   yieldVars, genVars, addVars>>

\* POST /api/chat: askQuestion with provider 'bedrock'.
StartChatRoute ==
  \E k \in Ks, inc \in BOOLEAN :
    /\ pc = "idle"
    /\ store = "opensearch"
    /\ req' = [kind |-> "ask", provider |-> "bedrock", k |-> k, includeContext |-> inc, viaRoute |-> TRUE]
    /\ pc' = EnterStore("embed")
    /\ ret' = "embed"
    /\ UNCHANGED <<storeVars, calls, hits, relevantDocs, searched, formattedContext, prompt, result, http,
                   yieldVars, genVars, addVars>>

\* GET /api/chat/context: getContextForQuestion(question, parseInt(maxDocs)).
StartContextRoute ==
  \E k \in Ks :
    /\ pc = "idle"
    /\ store = "opensearch"
    /\ req' = [kind |-> "context", provider |-> Null, k |-> k, includeContext |-> FALSE, viaRoute |-> TRUE]
    /\ pc' = EnterStore("embed")
    /\ ret' = "embed"
    /\ UNCHANGED <<storeVars, calls, hits, relevantDocs, searched, formattedContext, prompt, result, http,
                   yieldVars, genVars, addVars>>

\* POST /api/chat/stream: the SSE headers are set and the `for await` loop
\* asks generateStreamingResponse(message, 'bedrock', maxContextDocs) for
\* its first event.
StartStreamRoute ==
  \E k \in Ks :
    /\ pc = "idle"
    /\ store = "opensearch"
    /\ req' = [kind |-> "stream", provider |-> "bedrock", k |-> k, includeContext |-> FALSE, viaRoute |-> TRUE]
    /\ pc' = EnterStore("embed")
    /\ ret' = "embed"
    /\ clientConnected' = TRUE
    /\ UNCHANGED <<storeVars, calls, hits, relevantDocs, searched, formattedContext, prompt, result, http,
                   yieldVars, pulled, totalTokens, frames, resEnded, addVars>>

\* generateStreamingResponse(question, providerName, maxContextDocs) iterated
\* to its end by a caller other than the route.
StartStreamDirect ==
  \E p \in ProviderNames, k \in Ks :
    /\ pc = "idle"
    /\ store = "opensearch"
    /\ req' = [kind |-> "stream", provider |-> p, k |-> k, includeContext |-> FALSE, viaRoute |-> FALSE]
    /\ pc' = EnterStore("embed")
    /\ ret' = "embed"
    /\ UNCHANGED <<storeVars, calls, hits, relevantDocs, searched, formattedContext, prompt, result, http,
                   yieldVars, genVars, addVars>>

\* initialize(): `await this.client.info()`, then the embeddings and the text
\* splitter are constructed.
InitInfo ==
  /\ pc = "init_info"
  /\ calls' = Append(calls, "info")
  /\ \/ /\ defaultProvider \in {"openai", "anthropic", "bedrock"}
        /\ pc' = "init_exists"
        /\ UNCHANGED <<result, http, yieldVars>>
     \/ /\ defaultProvider \notin {"openai", "anthropic", "bedrock"}
        /\ Raise([name |-> "Error", message |-> <<"Unsupported LLM provider: ", defaultProvider>>])
     \/ Raise(ConnErr)
  /\ UNCHANGED <<storeVars, req, ret, hits, relevantDocs, searched, formattedContext, prompt, genVars, addVars>>

\* createIndexIfNotExists(): `await this.client.indices.exists(...)`.
InitExists ==
  /\ pc = "init_exists"
  /\ calls' = Append(calls, "exists")
  /\ \/ /\ indexExists
        /\ initialized' = TRUE
        /\ pc' = ret
        /\ UNCHANGED <<result, http, yieldVars>>
     \/ /\ ~indexExists
        /\ pc' = "init_create"
        /\ UNCHANGED <<initialized, result, http, yieldVars>>
     \/ /\ Raise(ConnErr)
        /\ UNCHANGED initialized
  /\ UNCHANGED <<defaultProvider, store, indexExists, index, dimension, tasks, req, ret, hits, relevantDocs,
                 searched, formattedContext, prompt, genVars, addVars>>

\* createIndexIfNotExists(): `await this.client.indices.create(...)`, then
\* initialize() sets `this.initialized = true`.
InitCreate ==
  /\ pc = "init_create"
  /\ calls' = Append(calls, "create")
  /\ \/ /\ indexExists' = TRUE
        /\ index' = <<>>
        /\ dimension' = Dimension
        /\ initialized' = TRUE
        /\ pc' = ret
        /\ UNCHANGED <<result, http, yieldVars>>
     \/ /\ Raise(ConnErr)
        /\ UNCHANGED <<initialized, indexExists, index, dimension>>
  /\ UNCHANGED <<defaultProvider, store, tasks, req, ret, hits, relevantDocs, searched, formattedContext, prompt,
                 genVars, addVars>>

\* embedQuery tried again after it failed.
EmbedQuery_Retry ==
  /\ pc = "embed"
  /\ calls' = Append(calls, "embed")
  /\ pc' = (IF Len(calls) < 2 THEN "embed" ELSE "search")
  /\ UNCHANGED <<storeVars, req, ret, hits, relevantDocs, searched, formattedContext, prompt, result, http,
                 yieldVars, genVars, addVars>>

\* similaritySearchWithScore(): `await this.embeddings.embedQuery(query)`.
EmbedQuery ==
  /\ pc = "embed"
  /\ calls' = Append(calls, "embed")
  /\ \/ /\ pc' = "search"
        /\ UNCHANGED <<result, http, yieldVars>>
     \/ Raise(EmbedErr)
  /\ UNCHANGED <<storeVars, req, ret, hits, relevantDocs, searched, formattedContext, prompt, genVars, addVars>>

\* The k-NN queries the server refuses: `size` and `k` are sent as they
\* come, and a knn query needs k > 0 and a vector of the index's dimension.
Refused(k) == k = 0 \/ dimension # EmbeddingDimension

\* similaritySearchWithScore(): `await this.client.search(...)` answered
\* with hits, mapped to [doc, 1 - score] pairs.  The span attributes the
\* caller derives from the scores (NaN and infinities for an empty result)
\* are recorded on the span and decide nothing.
SearchOk ==
  /\ pc = "search"
  /\ ~Refused(req.k)
  /\ calls' = Append(calls, "search")
  /\ \E hs \in HitLists(req.k) :
       /\ hits' = hs
       /\ relevantDocs' = MapHits(hs)
  /\ searched' = "ok"
  /\ pc' = "format"
  /\ UNCHANGED <<storeVars, req, ret, formattedContext, prompt, result, http, yieldVars, genVars, addVars>>

\* A rejected search answered as if the index had no match.
SearchFails_ReturnsEmpty ==
  /\ pc = "search"
  /\ calls' = Append(calls, "search")
  /\ searched' = "failed"
  /\ hits' = <<>>
  /\ relevantDocs' = <<>>
  /\ pc' = "format"
  /\ UNCHANGED <<storeVars, req, ret, formattedContext, prompt, result, http, yieldVars, genVars, addVars>>

\* similaritySearchWithScore(): `await this.client.search(...)` rejected
\* (no connection, or a query the server refuses); the catch block logs and
\* rethrows.
SearchFails ==
  /\ pc = "search"
  /\ calls' = Append(calls, "search")
  /\ searched' = "failed"
  /\ \E e \in {ConnErr} \cup (IF Refused(req.k) THEN {BadQueryErr} ELSE {}) : Raise(e)
  /\ UNCHANGED <<storeVars, req, ret, hits, relevantDocs, formattedContext, prompt, genVars, addVars>>

\* The provider looked up and the chat model invoked with a context that was
\* never formatted.
FormatAndLookup_SkipsFormat ==
  /\ pc = "format"
  /\ req.kind = "ask"
  /\ \/ /\ ProviderAvailable(req.provider)
        /\ pc' = "invoke"
        /\ UNCHANGED <<result, http, yieldVars>>
     \/ /\ ~ProviderAvailable(req.provider)
        /\ Raise(ProviderErr(req.provider))
  /\ UNCHANGED <<storeVars, req, ret, calls, hits, relevantDocs, searched, formattedContext, prompt,
                 genVars, addVars>>

\* generateResponse(): formatContext(relevantDocs), then
\* llmProvider.getProvider(providerName).
FormatAndLookup ==
  /\ pc = "format"
  /\ req.kind = "ask"
  /\ formattedContext' = formatContext(relevantDocs)
  /\ \/ /\ ProviderAvailable(req.provider)
        /\ pc' = "invoke"
        /\ UNCHANGED <<result, http, yieldVars>>
     \/ /\ ~ProviderAvailable(req.provider)
        /\ Raise(ProviderErr(req.provider))
  /\ UNCHANGED <<storeVars, req, ret, calls, hits, relevantDocs, searched, prompt, genVars, addVars>>

\* getContextForQuestion(): the value returned; GET /context answers 200.
ContextReturn ==
  /\ pc = "format"
  /\ req.kind = "context"
  /\ formattedContext' = formatContext(relevantDocs)
  /\ result' = [status |-> "returned",
                value |-> [context |-> formatContext(relevantDocs),
                           sources |-> extractSources(relevantDocs),
                           documentCount |-> Len(relevantDocs)]]
  /\ http' = HttpOk(result'.value)
  /\ pc' = "finished"
  /\ UNCHANGED <<storeVars, req, ret, calls, hits, relevantDocs, searched, prompt, yieldVars, genVars, addVars>>

\* generateResponse(): `await promptTemplate.pipe(llm).pipe(parser).invoke(...)`;
\* on success generateResponse and askQuestion return, POST /api/chat answers 200.
Invoke ==
  /\ pc = "invoke"
  /\ calls' = Append(calls, "invoke")
  /\ prompt' = <<formattedContext>>
  /\ \/ /\ result' = [status |-> "returned",
                      value |-> askQuestionResult(
                                  generateResponseResult(relevantDocs, <<"answer to">> \o formattedContext,
                                                         req.provider),
                                  req.includeContext)]
        /\ http' = (IF req.viaRoute THEN HttpOk(result'.value) ELSE http)
        /\ pc' = "finished"
        /\ UNCHANGED yieldVars
     \/ Raise(LLMErr)
  /\ UNCHANGED <<storeVars, req, ret, hits, relevantDocs, searched, formattedContext, genVars, addVars>>

\* The stream opened without the metadata event.
StreamFormatAndLookup_NoMetadata ==
  /\ pc = "format"
  /\ req.kind = "stream"
  /\ formattedContext' = formatContext(relevantDocs)
  /\ \/ /\ ProviderAvailable(req.provider)
        /\ pc' = "stream_open"
        /\ UNCHANGED <<result, http, yieldVars>>
     \/ /\ ~ProviderAvailable(req.provider)
        /\ Raise(ProviderErr(req.provider))
  /\ UNCHANGED <<storeVars, req, ret, calls, hits, relevantDocs, searched, prompt, genVars, addVars>>

\* generateStreamingResponse(): formatContext(relevantDocs),
\* llmProvider.getProvider(providerName), then `yield {type: 'metadata', ...}`.
StreamFormatAndLookup ==
  /\ pc = "format"
  /\ req.kind = "stream"
  /\ formattedContext' = formatContext(relevantDocs)
  /\ \/ /\ ProviderAvailable(req.provider)
        /\ events' = Append(events, MetadataEvent(relevantDocs, req.provider))
        /\ pending' = TRUE
        /\ pc' = "stream_open"
        /\ UNCHANGED <<result, http>>
     \/ /\ ~ProviderAvailable(req.provider)
        /\ Raise(ProviderErr(req.provider))
  /\ UNCHANGED <<storeVars, req, ret, calls, hits, relevantDocs, searched, prompt, genVars, addVars>>

\* The consumer takes the event the generator is suspended at.  POST /stream
\* writes it as an SSE frame; res.write() does not throw when the client is
\* gone, the frame is dropped by the socket.
Consume ==
  /\ pending
  /\ pending' = FALSE
  /\ frames' = (IF req.viaRoute THEN Append(frames, Frame(events[Len(events)])) ELSE frames)
  /\ UNCHANGED <<storeVars, reqVars, events, pulled, totalTokens, resEnded, clientConnected, addVars>>

\* generateStreamingResponse(): `await this.promptTemplate.pipe(llm).stream(...)`.
StreamOpen ==
  /\ pc = "stream_open"
  /\ ~pending
  /\ calls' = Append(calls, "stream")
  /\ prompt' = <<formattedContext>>
  /\ \/ /\ pc' = "pull"
        /\ UNCHANGED <<result, http, yieldVars>>
     \/ Raise(LLMErr)
  /\ UNCHANGED <<storeVars, req, ret, hits, relevantDocs, searched, formattedContext, genVars, addVars>>

\* generateStreamingResponse(): one turn of `for await (const chunk of stream)`
\* that receives a chunk and yields it as a `content` event; `if (content)`
\* holds for a non-empty text and for a chunk object alike.
StreamChunk ==
  /\ pc = "pull"
  /\ ~pending
  /\ pulled < MaxFragments
  /\ \E text \in FragmentTexts :
       LET content == ContentOf([content |-> text])
       IN  /\ totalTokens' = AddTokens(totalTokens, LengthOf(content))
           /\ events' = Append(events, ContentEvent(content))
  /\ pulled' = pulled + 1
  /\ pending' = TRUE
  /\ UNCHANGED <<storeVars, reqVars, frames, resEnded, clientConnected, addVars>>

\* `done` yielded from inside the loop, which goes on.
StreamEnd_StaysOpen ==
  /\ pc = "pull"
  /\ ~pending
  /\ Len(events) < MaxFragments + 3
  /\ events' = Append(events, DoneEvent(totalTokens))
  /\ pending' = TRUE
  /\ UNCHANGED <<storeVars, reqVars, genVars, addVars>>

\* generateStreamingResponse(): the chat model's stream is exhausted;
\* `yield {type: 'done', ...}`.
StreamEnd ==
  /\ pc = "pull"
  /\ ~pending
  /\ events' = Append(events, DoneEvent(totalTokens))
  /\ pending' = TRUE
  /\ pc' = "gen_end"
  /\ UNCHANGED <<storeVars, req, ret, calls, hits, relevantDocs, searched, formattedContext, prompt,
                 result, http, genVars, addVars>>

\* generateStreamingResponse(): the chat model's stream rejects while it is
\* iterated.
StreamBreaks ==
  /\ pc = "pull"
  /\ ~pending
  /\ Raise(LLMErr)
  /\ UNCHANGED <<storeVars, req, ret, calls, hits, relevantDocs, searched, formattedContext, prompt, genVars, addVars>>

\* The generator returns; POST /stream leaves its loop and calls res.end().
GenReturn ==
  /\ pc = "gen_end"
  /\ ~pending
  /\ pc' = "finished"
  /\ resEnded' = req.viaRoute
  /\ UNCHANGED <<storeVars, req, ret, calls, hits, relevantDocs, searched, formattedContext, prompt,
                 result, http, yieldVars, pulled, totalTokens, frames, clientConnected, addVars>>

\* The HTTP client of POST /stream goes away.  The route registers no
\* 'close' listener and passes no abort signal to the generator.
ClientDisconnect ==
  /\ req.kind = "stream"
  /\ req.viaRoute
  /\ pc # "finished"
  /\ clientConnected
  /\ clientConnected' = FALSE
  /\ UNCHANGED <<storeVars, reqVars, yieldVars, pulled, totalTokens, frames, resEnded, addVars>>

\* ------------------------------------------------------------- ingestion
\* Chunk documents numbered from 1.
ChunkDocs_OneBased(doc) ==
  [i \in 1..doc.nChunks |->
     [source |-> doc.source,
      chunk_index |-> i,
      chunk_total |-> doc.nChunks,
      document_id |-> (IF doc.id # NoId THEN doc.id ELSE <<"doc", "now", i - 1>>)]]

\* The chunk documents addDocuments builds from one input document whose
\* text the splitter cuts into doc.nChunks chunks.
ChunkDocs(doc) ==
  [i \in 1..doc.nChunks |->
     [source |-> doc.source,
      chunk_index |-> i - 1,
      chunk_total |-> doc.nChunks,
      document_id |-> (IF doc.id # NoId THEN doc.id ELSE <<"doc", "now", i - 1>>)]]

\* `for (const doc of documents) { ... processedDocs.push(chunkDoc) }`
ProcessDocuments(documents) == Flatten([d \in 1..Len(documents) |-> ChunkDocs(documents[d])])

\* IngestionService.processDocument(doc, index)
processDocument(doc, docIndex) ==
  [id |-> <<"doc", "now", docIndex>>, source |-> doc.source, nChunks |-> doc.nChunks]

RECURSIVE SumChunks(_)
SumChunks(documents) ==
  IF documents = <<>> THEN 0 ELSE Head(documents).nChunks + SumChunks(Tail(documents))

\* The elements of a sequence, in order, whose positions are not in a set.
RECURSIVE Keep(_, _, _)
Keep(seq, drop, i) ==
  IF i > Len(seq) THEN <<>>
  ELSE (IF i \in drop THEN <<>> ELSE <<seq[i]>>) \o Keep(seq, drop, i + 1)

\* `response.body.items.forEach((action, i) => { if (action[operation].error)
\*    erroredDocuments.push({..., document: bulkBody[i * 2 + 1]}) })`
ErroredDocuments(docs, rejected) == Keep(docs, (1..Len(docs)) \ rejected, 1)

\* What addDocuments returns after the bulk request was answered:
\* `return processedDocs.length`.
addDocumentsReturn(docs, rejected) == Len(docs)

\* The value ingestSampleDocuments returns.
IngestResult(documents, totalChunks) ==
  [documentsIngested |-> Len(documents), chunksCreated |-> totalChunks, success |-> TRUE]

\* What the route answers with once addDocuments returned `count`:
\* POST /api/admin/ingest reports chunksAdded, the /api/ingest paths report
\* the value of ingestSampleDocuments / ingestCustomDocument.
IngestAnswer(count) ==
  IF req.kind = "admin_ingest" THEN [chunksAdded |-> count]
  ELSE IngestResult(req.documents, count)

\* this.sampleDocuments: a fixed list, each entry with its own source.
SampleSource(i) == IF i % 2 = 1 THEN "otel-docs-instrumentation" ELSE "ai-workshop"

\* The sample documents one call ingests: this.sampleDocuments mapped
\* through processDocument with their position; the splitter cuts each
\* text into some number of chunks.
SampleDocuments ==
  UNION { { [i \in 1..n |-> processDocument([source |-> SampleSource(i), nChunks |-> cs[i]], i - 1)] :
              cs \in [1..n -> 0..MaxChunks] } : n \in 1..MaxDocs }

\* POST /api/ingest without a custom document and without reset:
\* ingestionService.ingestSampleDocuments().
StartIngestSample ==
  \E documents \in SampleDocuments :
    /\ pc = "idle"
    /\ store = "opensearch"
    /\ Len(index) + SumChunks(documents) <= MaxIndex
    /\ req' = [kind |-> "ingest", provider |-> Null, k |-> 0, includeContext |-> FALSE,
               viaRoute |-> TRUE, documents |-> documents, reset |-> FALSE, custom |-> FALSE]
    /\ pc' = EnterStore("add_split")
    /\ ret' = "add_split"
    /\ UNCHANGED <<storeVars, calls, hits, relevantDocs, searched, formattedContext, prompt, result,
                   http, yieldVars, genVars, addVars>>

\* POST /api/ingest with a custom document in the body: the `if (document)`
\* branch is taken whatever `reset` is, ingestCustomDocument(document) runs
\* processDocument(doc, 0) and addDocuments([document]).
StartIngestCustom ==
  \E reset \in BOOLEAN, src \in Sources, c \in 1..MaxChunks :
    /\ pc = "idle"
    /\ store = "opensearch"
    /\ Len(index) + c <= MaxIndex
    /\ req' = [kind |-> "ingest", provider |-> Null, k |-> 0, includeContext |-> FALSE,
               viaRoute |-> TRUE,
               documents |-> <<processDocument([source |-> src, nChunks |-> c], 0)>>,
               reset |-> reset, custom |-> TRUE]
    /\ pc' = EnterStore("add_split")
    /\ ret' = "add_split"
    /\ UNCHANGED <<storeVars, calls, hits, relevantDocs, searched, formattedContext, prompt, result,
                   http, yieldVars, genVars, addVars>>

\* POST /api/ingest?reset=true without a custom document:
\* ingestionService.resetAndIngest().  deleteCollection() returns at once
\* when the flag is down; initialize() is then called whatever the flag.
StartResetAndIngest ==
  \E documents \in SampleDocuments :
    /\ pc = "idle"
    /\ store = "opensearch"
    /\ Len(index) + SumChunks(documents) <= MaxIndex
    /\ req' = [kind |-> "ingest", provider |-> Null, k |-> 0, includeContext |-> FALSE,
               viaRoute |-> TRUE, documents |-> documents, reset |-> TRUE, custom |-> FALSE]
    /\ pc' = (IF initialized THEN "reset_delete" ELSE "init_info")
    /\ ret' = "add_split"
    /\ UNCHANGED <<storeVars, calls, hits, relevantDocs, searched, formattedContext, prompt, result,
                   http, yieldVars, genVars, addVars>>

\* resetAndIngest(): `await vectorStore.deleteCollection().catch(() => {...})`
\* with the flag up: the index is deleted and the flag lowered, or the delete
\* fails and the failure is logged and dropped.
ResetDelete ==
  /\ pc = "reset_delete"
  /\ calls' = Append(calls, "delete")
  /\ \/ /\ indexExists' = FALSE
        /\ index' = <<>>
        /\ dimension' = NoDimension
        /\ initialized' = FALSE
     \/ UNCHANGED <<indexExists, index, dimension, initialized>>
  /\ pc' = "init_info"
  /\ UNCHANGED <<defaultProvider, store, tasks, req, ret, hits, relevantDocs, searched,
                 formattedContext, prompt, result, http, yieldVars, genVars, addVars>>

\* POST /api/admin/ingest: one Document built from the body, whose metadata
\* holds title, source, url, ingestedAt and what the caller put in
\* `metadata` (an id or none), handed to vectorStore.addDocuments.
StartAdminIngest ==
  \E withId \in BOOLEAN, src \in Sources, c \in 1..MaxChunks :
    /\ pc = "idle"
    /\ store = "opensearch"
    /\ Len(index) + c <= MaxIndex
    /\ req' = [kind |-> "admin_ingest", provider |-> Null, k |-> 0, includeContext |-> FALSE,
               viaRoute |-> TRUE,
               documents |-> <<[id |-> (IF withId THEN <<"doc", "caller", 0>> ELSE NoId),
                                source |-> src, nChunks |-> c]>>,
               reset |-> FALSE, custom |-> TRUE]
    /\ pc' = EnterStore("add_split")
    /\ ret' = "add_split"
    /\ UNCHANGED <<storeVars, calls, hits, relevantDocs, searched, formattedContext, prompt, result,
                   http, yieldVars, genVars, addVars>>

\* addDocuments(): the documents are split and the chunk documents built;
\* with no chunk at all, nothing is embedded or sent and 0 is returned.
AddSplit ==
  /\ pc = "add_split"
  /\ processedDocs' = ProcessDocuments(req.documents)
  /\ IF ProcessDocuments(req.documents) = <<>>
     THEN /\ result' = [status |-> "returned",
                        value |-> IngestAnswer(addDocumentsReturn(<<>>, {}))]
          /\ http' = HttpOk(result'.value)
          /\ pc' = "finished"
     ELSE /\ pc' = "add_embed"
          /\ UNCHANGED <<result, http>>
  /\ UNCHANGED <<storeVars, req, ret, calls, hits, relevantDocs, searched, formattedContext, prompt,
                 yieldVars, genVars, embedded, erroredDocuments>>

\* addDocuments sending what it has embedded so far when an embedding fails.
AddEmbed_FlushesOnFailure ==
  /\ pc = "add_embed"
  /\ calls' = Append(calls, "embed")
  /\ \/ /\ embedded' = embedded + 1
        /\ pc' = (IF embedded + 1 = Len(processedDocs) THEN "add_bulk" ELSE "add_embed")
        /\ UNCHANGED <<result, http, yieldVars, index>>
     \/ /\ Raise(EmbedErr)
        /\ index' = index \o SubSeq(processedDocs, 1, embedded)
        /\ UNCHANGED embedded
  /\ UNCHANGED <<defaultProvider, store, initialized, indexExists, dimension, tasks, req, ret, hits,
                 relevantDocs, searched, formattedContext, prompt, genVars, processedDocs,
                 erroredDocuments>>

\* addDocuments(): `await this.embeddings.embedQuery(doc.pageContent)` for the
\* next chunk; the index action and the document are pushed on bulkBody.
AddEmbed ==
  /\ pc = "add_embed"
  /\ calls' = Append(calls, "embed")
  /\ \/ /\ embedded' = embedded + 1
        /\ pc' = (IF embedded + 1 = Len(processedDocs) THEN "add_bulk" ELSE "add_embed")
        /\ UNCHANGED <<result, http, yieldVars>>
     \/ /\ Raise(EmbedErr)
        /\ UNCHANGED embedded
  /\ UNCHANGED <<storeVars, req, ret, hits, relevantDocs, searched, formattedContext, prompt,
                 genVars, processedDocs, erroredDocuments>>

\* addDocuments(): `await this.client.bulk({refresh: true, body: bulkBody})`.
\* The server indexes the items it accepts and reports the others as errors,
\* among them every item whose vector has not the dimension of the index;
\* addDocuments logs them and returns; ingestSampleDocuments and the route
\* answer with the count.
AddBulk ==
  /\ pc = "add_bulk"
  /\ calls' = Append(calls, "bulk")
  /\ \/ \E rejected \in SUBSET (1..Len(processedDocs)) :
          /\ dimension # EmbeddingDimension => rejected = 1..Len(processedDocs)
          /\ index' = index \o Keep(processedDocs, rejected, 1)
          /\ erroredDocuments' = ErroredDocuments(processedDocs, rejected)
          /\ result' = [status |-> "returned",
                        value |-> IngestAnswer(addDocumentsReturn(processedDocs, rejected))]
          /\ http' = HttpOk(result'.value)
          /\ pc' = "finished"
          /\ UNCHANGED yieldVars
     \/ /\ Raise(ConnErr)
        /\ UNCHANGED <<index, erroredDocuments>>
  /\ UNCHANGED <<defaultProvider, store, initialized, indexExists, dimension, tasks, req, ret, hits, relevantDocs,
                 searched, formattedContext, prompt, genVars, processedDocs, embedded>>

\* DELETE /api/admin/vector-store: vectorStore.deleteCollection().
DeleteCollection ==
  /\ pc = "idle"
  /\ store = "opensearch"
  /\ req' = [kind |-> "delete", provider |-> Null, k |-> 0, includeContext |-> FALSE, viaRoute |-> TRUE]
  /\ IF ~initialized
     THEN /\ calls' = calls
          /\ result' = [status |-> "returned", value |-> [deleted |-> FALSE]]
          /\ http' = HttpOk(result'.value)
          /\ UNCHANGED storeVars
     ELSE /\ calls' = Append(calls, "delete")
          /\ \/ /\ indexExists' = FALSE
                /\ index' = <<>>
                /\ dimension' = NoDimension
                /\ initialized' = FALSE
                /\ result' = [status |-> "returned", value |-> [deleted |-> TRUE]]
                /\ http' = HttpOk(result'.value)
             \/ /\ result' = [status |-> "thrown", raised |-> ConnErr, inner |-> Rethrow(ConnErr),
                              error |-> Rethrow(ConnErr)]
                /\ http' = HttpError(Rethrow(ConnErr))
                /\ UNCHANGED <<indexExists, index, dimension, initialized>>
          /\ UNCHANGED <<defaultProvider, store, tasks>>
  /\ pc' = "finished"
  /\ UNCHANGED <<ret, hits, relevantDocs, searched, formattedContext, prompt, yieldVars, genVars, addVars>>

\* ------------------------------------------------------ the Chroma store
\* VectorStoreService of services/vectorStoreChroma.js, the store the
\* OpenSearch one replaced, called directly.  When store = "chroma",
\* `initialized` is its flag, `indexExists` and `index` are the collection
\* on the Chroma server and its records, and `hits` is what the library
\* call returned.
NonDecreasing(f) == \A i, j \in DOMAIN f : i < j => f[i] <= f[j]

\* `config.default.llm.provider` read while the message of the
\* "unsupported provider" error is built: `config` has no `default`.
TypeErr == [name |-> "TypeError", message |-> <<"Cannot read properties of undefined (reading 'llm')">>]

\* The [Document, distance] lists the library can answer with: at most k
\* distinct records of the collection, smallest distance first.
ChromaHitLists(k) ==
  LET lens == 0..Min(k, Len(index))
  IN  UNION { { [i \in 1..l |-> [content |-> <<"chunk", index[p[i]].document_id, index[p[i]].chunk_index>>,
                                 source |-> index[p[i]].source,
                                 raw |-> s[i]]] :
                  p \in {q \in [1..l -> 1..Len(index)] : Injective(q)},
                  s \in {t \in [1..l -> RawScores] : NonDecreasing(t)} } : l \in lens }

\* The Chroma store turning each distance d into 1 - d.
ChromaResults_Inverted(results) ==
  [i \in 1..Len(results) |->
     [doc |-> [pageContent |-> results[i].content, source |-> results[i].source],
      score |-> One - results[i].raw]]

\* `const results = await this.vectorStore.similaritySearchVectorWithScore(...);
\*  return results;`: the library's pairs, scores and order untouched.
ChromaResults(results) ==
  [i \in 1..Len(results) |->
     [doc |-> [pageContent |-> results[i].content, source |-> results[i].source],
      score |-> results[i].raw]]

\* VectorStoreService.similaritySearchWithScore(query, k), called directly.
ChromaStartSearch ==
  \E k \in Ks :
    /\ pc = "idle"
    /\ store = "chroma"
    /\ req' = [kind |-> "chroma_search", provider |-> Null, k |-> k, includeContext |-> FALSE,
               viaRoute |-> FALSE]
    /\ pc' = (IF initialized THEN "chroma_embed" ELSE "chroma_init")
    /\ ret' = "chroma_embed"
    /\ UNCHANGED <<storeVars, calls, hits, relevantDocs, searched, formattedContext, prompt, result,
                   http, yieldVars, genVars, addVars>>

\* initialize(): the embeddings and the splitter are constructed, then
\* `await Chroma.fromDocuments([], ...)`; whether the library creates the
\* collection for an empty list of documents is its own business.
ChromaFromDocuments ==
  /\ pc = "chroma_init"
  /\ \/ /\ defaultProvider \in {"openai", "anthropic", "bedrock"}
        /\ calls' = Append(calls, "fromDocuments")
        /\ \/ /\ initialized' = TRUE
              /\ indexExists' \in {indexExists, TRUE}
              /\ pc' = ret
           \/ /\ pc' = "chroma_existing"
              /\ UNCHANGED <<initialized, indexExists>>
        /\ UNCHANGED <<result, http, yieldVars>>
     \/ /\ defaultProvider \notin {"openai", "anthropic", "bedrock"}
        /\ Raise(TypeErr)
        /\ UNCHANGED <<calls, initialized, indexExists>>
  /\ UNCHANGED <<defaultProvider, store, index, dimension, tasks, req, ret, hits, relevantDocs, searched,
                 formattedContext, prompt, genVars, addVars>>

\* initialize(): the inner catch block, `await Chroma.fromExistingCollection(...)`.
ChromaFromExisting ==
  /\ pc = "chroma_existing"
  /\ calls' = Append(calls, "fromExistingCollection")
  /\ \/ /\ initialized' = TRUE
        /\ pc' = ret
        /\ UNCHANGED <<result, http, yieldVars>>
     \/ /\ Raise(ConnErr)
        /\ UNCHANGED initialized
  /\ UNCHANGED <<defaultProvider, store, indexExists, index, dimension, tasks, req, ret, hits, relevantDocs,
                 searched, formattedContext, prompt, genVars, addVars>>

\* similaritySearchWithScore(): `await this.embeddings.embedQuery(query)`.
ChromaEmbed ==
  /\ pc = "chroma_embed"
  /\ calls' = Append(calls, "embed")
  /\ \/ /\ pc' = "chroma_search"
        /\ UNCHANGED <<result, http, yieldVars>>
     \/ Raise(EmbedErr)
  /\ UNCHANGED <<storeVars, req, ret, hits, relevantDocs, searched, formattedContext, prompt,
                 genVars, addVars>>

\* similaritySearchWithScore(): the library call answered; its result is
\* logged and returned.
ChromaSearchOk ==
  /\ pc = "chroma_search"
  /\ calls' = Append(calls, "search")
  /\ \E results \in ChromaHitLists(req.k) :
       /\ hits' = results
       /\ relevantDocs' = ChromaResults(results)
       /\ result' = [status |-> "returned", value |-> ChromaResults(results)]
  /\ searched' = "ok"
  /\ pc' = "finished"
  /\ UNCHANGED <<storeVars, req, ret, formattedContext, prompt, http, yieldVars, genVars, addVars>>

\* similaritySearchWithScore(): the library call rejected; the catch block
\* logs and rethrows.
ChromaSearchFails ==
  /\ pc = "chroma_search"
  /\ calls' = Append(calls, "search")
  /\ searched' = "failed"
  /\ Raise(ConnErr)
  /\ UNCHANGED <<storeVars, req, ret, hits, relevantDocs, formattedContext, prompt, genVars, addVars>>

\* VectorStoreService.deleteCollection(): nothing when the flag is down,
\* else `await this.vectorStore.delete()` and the flag is lowered.
ChromaDeleteCollection ==
  /\ pc = "idle"
  /\ store = "chroma"
  /\ req' = [kind |-> "chroma_delete", provider |-> Null, k |-> 0, includeContext |-> FALSE,
             viaRoute |-> FALSE]
  /\ IF ~initialized
     THEN /\ calls' = calls
          /\ result' = [status |-> "returned", value |-> [deleted |-> FALSE]]
          /\ UNCHANGED <<initialized, index>>
     ELSE /\ calls' = Append(calls, "delete")
          /\ \/ /\ index' = <<>>
                /\ initialized' = FALSE
                /\ result' = [status |-> "returned", value |-> [deleted |-> TRUE]]
             \/ /\ result' = [status |-> "thrown", raised |-> ConnErr, inner |-> Rethrow(ConnErr),
                              error |-> Rethrow(ConnErr)]
                /\ UNCHANGED <<index, initialized>>
  /\ pc' = "finished"
  /\ UNCHANGED <<defaultProvider, store, indexExists, dimension, tasks, ret, hits, relevantDocs, searched,
                 formattedContext, prompt, http, yieldVars, genVars, addVars>>

\* ------------------------------------------------- overlapping store calls
\* Two callers use the one OpenSearchVectorStore object at the same time:
\* Express serves requests concurrently, and each `await` of a store method
\* lets the other caller run.  A task is one call of initialize() (entered by
\* a first use of the store, or directly by Server.initializeServices,
\* resetAndIngest and POST /ingest-all) or of deleteCollection().
AlreadyExistsErr == [name |-> "ResponseError", message |-> <<"resource_already_exists_exception">>]
NotFoundErr == [name |-> "ResponseError", message |-> <<"index_not_found_exception">>]
UnsupportedErr == [name |-> "Error", message |-> <<"Unsupported LLM provider: ", defaultProvider>>]

TaskAt(p, op, at) == tasks[p].op = op /\ tasks[p].pc = at

\* The call returned.
TaskOk(p) == [tasks EXCEPT ![p].pc = "done", ![p].outcome = "ok"]

\* The call threw: every catch block on the way logs and rethrows.
TaskThrows(p, error) ==
  [tasks EXCEPT ![p].pc = "done", ![p].outcome = "thrown", ![p].error = Rethrow(error)]

\* The call is in initialize(), entered directly or from the head of
\* similaritySearchWithScore (`if (!this.initialized) await this.initialize()`).
TaskInitializing(p, at) == tasks[p].op \in {"initialize", "search"} /\ tasks[p].pc = at

\* initialize() raised the flag and returned: to its caller, or into the
\* search that called it.
TaskInitialized(p) ==
  IF tasks[p].op = "search" THEN [tasks EXCEPT ![p].pc = "embed"] ELSE TaskOk(p)

\* initialize() is entered.
TaskInitialize(p) ==
  /\ store = "opensearch"
  /\ tasks[p].pc = "idle"
  /\ tasks' = [tasks EXCEPT ![p].op = "initialize", ![p].pc = "info"]
  /\ UNCHANGED <<defaultProvider, store, initialized, indexExists, index, dimension,
                 reqVars, yieldVars, genVars, addVars>>

\* initialize(): `await this.client.info()`, then the embeddings are chosen.
TaskInfo(p) ==
  /\ TaskInitializing(p, "info")
  /\ \/ /\ defaultProvider \in {"openai", "anthropic", "bedrock"}
        /\ tasks' = [tasks EXCEPT ![p].pc = "exists"]
     \/ /\ defaultProvider \notin {"openai", "anthropic", "bedrock"}
        /\ tasks' = TaskThrows(p, UnsupportedErr)
     \/ tasks' = TaskThrows(p, ConnErr)
  /\ UNCHANGED <<defaultProvider, store, initialized, indexExists, index, dimension,
                 reqVars, yieldVars, genVars, addVars>>

\* createIndexIfNotExists() asking for the index to be created although it
\* was found.
TaskExists_Recreates(p) ==
  /\ TaskAt(p, "initialize", "exists")
  /\ tasks' = [tasks EXCEPT ![p].pc = "create"]
  /\ UNCHANGED <<defaultProvider, store, initialized, indexExists, index, dimension,
                 reqVars, yieldVars, genVars, addVars>>

\* createIndexIfNotExists(): `await this.client.indices.exists(...)`; when
\* the index is there the method returns and initialize() raises the flag.
TaskExists(p) ==
  /\ TaskInitializing(p, "exists")
  /\ \/ /\ indexExists
        /\ tasks' = TaskInitialized(p)
        /\ initialized' = TRUE
     \/ /\ ~indexExists
        /\ tasks' = [tasks EXCEPT ![p].pc = "create"]
        /\ UNCHANGED initialized
     \/ /\ tasks' = TaskThrows(p, ConnErr)
        /\ UNCHANGED initialized
  /\ UNCHANGED <<defaultProvider, store, indexExists, index, dimension,
                 reqVars, yieldVars, genVars, addVars>>

\* createIndexIfNotExists(): `await this.client.indices.create(...)`.  The
\* server creates the index when there is none of that name and rejects the
\* request when there is one; initialize() raises the flag after a success.
TaskCreate(p) ==
  /\ TaskInitializing(p, "create")
  /\ \/ /\ ~indexExists
        /\ indexExists' = TRUE
        /\ index' = <<>>
        /\ dimension' = Dimension
        /\ initialized' = TRUE
        /\ tasks' = [TaskInitialized(p) EXCEPT ![p].created = TRUE]
     \/ /\ indexExists
        /\ tasks' = TaskThrows(p, AlreadyExistsErr)
        /\ UNCHANGED <<initialized, indexExists, index, dimension>>
     \/ /\ tasks' = TaskThrows(p, ConnErr)
        /\ UNCHANGED <<initialized, indexExists, index, dimension>>
  /\ UNCHANGED <<defaultProvider, store, reqVars, yieldVars, genVars, addVars>>

\* deleteCollection() is entered: `if (!this.initialized) return;`.
TaskDeleteCollection(p) ==
  /\ store = "opensearch"
  /\ tasks[p].pc = "idle"
  /\ tasks' = (IF ~initialized
               THEN [TaskOk(p) EXCEPT ![p].op = "delete"]
               ELSE [tasks EXCEPT ![p].op = "delete", ![p].pc = "delete"])
  /\ UNCHANGED <<defaultProvider, store, initialized, indexExists, index, dimension,
                 reqVars, yieldVars, genVars, addVars>>

\* deleteCollection(): `await this.client.indices.delete(...)`, then the flag
\* is lowered.  The server answers 404 when there is no index of that name.
TaskDelete(p) ==
  /\ TaskAt(p, "delete", "delete")
  /\ \/ /\ indexExists
        /\ indexExists' = FALSE
        /\ index' = <<>>
        /\ dimension' = NoDimension
        /\ initialized' = FALSE
        /\ tasks' = TaskOk(p)
     \/ /\ ~indexExists
        /\ tasks' = TaskThrows(p, NotFoundErr)
        /\ UNCHANGED <<initialized, indexExists, index, dimension>>
     \/ /\ tasks' = TaskThrows(p, ConnErr)
        /\ UNCHANGED <<initialized, indexExists, index, dimension>>
  /\ UNCHANGED <<defaultProvider, store, reqVars, yieldVars, genVars, addVars>>

\* similaritySearchWithScore() is entered: the flag is read, and with the
\* flag down initialize() is awaited first.
TaskSimilaritySearch(p) ==
  /\ store = "opensearch"
  /\ tasks[p].pc = "idle"
  /\ tasks' = [tasks EXCEPT ![p].op = "search",
                            ![p].pc = (IF initialized THEN "embed" ELSE "info")]
  /\ UNCHANGED <<defaultProvider, store, initialized, indexExists, index, dimension,
                 reqVars, yieldVars, genVars, addVars>>

\* similaritySearchWithScore(): `await this.embeddings.embedQuery(query)`.
TaskEmbed(p) ==
  /\ TaskAt(p, "search", "embed")
  /\ \/ tasks' = [tasks EXCEPT ![p].pc = "knn"]
     \/ tasks' = TaskThrows(p, EmbedErr)
  /\ UNCHANGED <<defaultProvider, store, initialized, indexExists, index, dimension,
                 reqVars, yieldVars, genVars, addVars>>

\* similaritySearchWithScore(): `await this.client.search(...)`.  The server
\* answers 404 when there is no index of that name and refuses a vector of
\* another dimension than the index's.
TaskSearch(p) ==
  /\ TaskAt(p, "search", "knn")
  /\ \/ /\ indexExists
        /\ dimension = EmbeddingDimension
        /\ tasks' = TaskOk(p)
     \/ /\ indexExists
        /\ dimension # EmbeddingDimension
        /\ tasks' = TaskThrows(p, BadQueryErr)
     \/ /\ ~indexExists
        /\ tasks' = TaskThrows(p, NotFoundErr)
     \/ tasks' = TaskThrows(p, ConnErr)
  /\ UNCHANGED <<defaultProvider, store, initialized, indexExists, index, dimension,
                 reqVars, yieldVars, genVars, addVars>>

\* The caller has its answer; it may call again.
TaskReturn(p) ==
  /\ tasks[p].pc = "done"
  /\ tasks' = [tasks EXCEPT ![p] = NoTask]
  /\ UNCHANGED <<defaultProvider, store, initialized, indexExists, index, dimension,
                 reqVars, yieldVars, genVars, addVars>>

\* ---------------------------------------------------------------- startup
\* Errors of the start-up steps.
MissingEnvErr ==
  [name |-> "Error", message |-> <<"Missing required environment variables: ", "AWS_ACCESS_KEY_ID">>]
SetupErr == [name |-> "TypeError", message |-> <<"app.use() requires a middleware function">>]
ListenErr == [name |-> "Error", message |-> <<"listen EADDRINUSE">>]

\* NODE_ENV of the process.
NodeEnvs == {"development", "production"}

\* `server.start()` at the bottom of index.js: start() awaits initialize().
StartServer ==
  \E env \in NodeEnvs :
    /\ pc = "idle"
    /\ store = "opensearch"
    /\ ~initialized
    /\ req' = [kind |-> "startup", provider |-> Null, k |-> 0, includeContext |-> FALSE,
               viaRoute |-> FALSE, nodeEnv |-> env]
    /\ pc' = "validate_config"
    /\ ret' = "setup_middleware"
    /\ UNCHANGED <<storeVars, calls, hits, relevantDocs, searched, formattedContext, prompt, result,
                   http, yieldVars, genVars, addVars>>

\* Server.initialize(): validateConfig() throws for a default provider
\* other than openai / anthropic / bedrock and for a missing credential.
ValidateConfig ==
  /\ pc = "validate_config"
  /\ calls' = Append(calls, "validateConfig")
  /\ \/ /\ defaultProvider \in {"openai", "anthropic", "bedrock"}
        /\ pc' = "init_services"
        /\ UNCHANGED <<result, http, yieldVars>>
     \/ /\ defaultProvider \in {"openai", "anthropic", "bedrock"}
        /\ Raise(MissingEnvErr)
     \/ /\ defaultProvider \notin {"openai", "anthropic", "bedrock"}
        /\ Raise([name |-> "Error", message |-> <<"Unsupported LLM provider: ", defaultProvider>>])
  /\ UNCHANGED <<storeVars, req, ret, hits, relevantDocs, searched, formattedContext, prompt, genVars, addVars>>

\* initializeServices() going on to the middleware without awaiting the
\* vector store.
InitializeServices_NoAwait ==
  /\ pc = "init_services"
  /\ calls' = Append(calls, "getAvailableProviders")
  /\ pc' = "setup_middleware"
  /\ UNCHANGED <<storeVars, req, ret, hits, relevantDocs, searched, formattedContext, prompt, result,
                 http, yieldVars, genVars, addVars>>

\* initializeServices(): llmProvider.getAvailableProviders() (the provider
\* service was built by its constructor at import), then
\* `await vectorStore.initialize()`.
InitializeServices ==
  /\ pc = "init_services"
  /\ calls' = Append(calls, "getAvailableProviders")
  /\ pc' = "init_info"
  /\ UNCHANGED <<storeVars, req, ret, hits, relevantDocs, searched, formattedContext, prompt, result,
                 http, yieldVars, genVars, addVars>>

\* One of the three synchronous set-up steps of Server.initialize(): the
\* app.use / app.get / process.on calls are made, or one of them throws.
SetupStep(at, name, next) ==
  /\ pc = at
  /\ calls' = Append(calls, name)
  /\ \/ /\ pc' = next
        /\ UNCHANGED <<result, http, yieldVars>>
     \/ Raise(SetupErr)
  /\ UNCHANGED <<storeVars, req, ret, hits, relevantDocs, searched, formattedContext, prompt, genVars, addVars>>

SetupMiddleware == SetupStep("setup_middleware", "setupMiddleware", "setup_routes")

SetupRoutes == SetupStep("setup_routes", "setupRoutes", "setup_error_handling")

SetupErrorHandling == SetupStep("setup_error_handling", "setupErrorHandling", "listen")

\* start(): initialize() returned, `this.app.listen(this.port, ...)`.  A
\* port that cannot be bound raises an uncaught 'error' event, which the
\* uncaughtException handler answers with process.exit(1).
Listen ==
  /\ pc = "listen"
  /\ calls' = Append(calls, "listen")
  /\ \/ /\ result' = [status |-> "returned", value |-> [listening |-> TRUE, nodeEnv |-> req.nodeEnv]]
        /\ pc' = "finished"
        /\ UNCHANGED <<http, yieldVars>>
     \/ Raise(ListenErr)
  /\ UNCHANGED <<storeVars, req, ret, hits, relevantDocs, searched, formattedContext, prompt, genVars, addVars>>

\* start()'s catch block: `process.exit(1)`.  The process is gone with its
\* store object; what the server holds stays.
Exit ==
  /\ pc = "finished"
  /\ req.kind = "startup"
  /\ result.status = "thrown"
  /\ initialized' = FALSE
  /\ pc' = "idle"
  /\ req' = NoRequest
  /\ ret' = "none"
  /\ calls' = <<>>
  /\ result' = NoResult
  /\ UNCHANGED <<defaultProvider, store, indexExists, index, dimension, tasks, hits, relevantDocs,
                 searched, formattedContext, prompt, http, yieldVars, genVars, addVars>>

\* The request is over; the next one starts from a clean slate.
Finish ==
  /\ pc = "finished"
  /\ pc' = "idle"
  /\ req' = NoRequest
  /\ ret' = "none"
  /\ calls' = <<>>
  /\ hits' = <<>>
  /\ relevantDocs' = <<>>
  /\ searched' = "no"
  /\ formattedContext' = <<>>
  /\ prompt' = <<>>
  /\ result' = NoResult
  /\ http' = NoHttp
  /\ events' = <<>>
  /\ pending' = FALSE
  /\ pulled' = 0
  /\ totalTokens' = 0
  /\ frames' = <<>>
  /\ resEnded' = FALSE
  /\ clientConnected' = FALSE
  /\ processedDocs' = <<>>
  /\ embedded' = 0
  /\ erroredDocuments' = <<>>
  /\ UNCHANGED storeVars

Next ==
  \/ StartAsk
  \/ StartChatRoute
  \/ StartContextRoute
  \/ StartStreamRoute
  \/ StartStreamDirect
  \/ InitInfo
  \/ InitExists
  \/ InitCreate
  \/ EmbedQuery
  \/ SearchOk
  \/ SearchFails
  \/ FormatAndLookup
  \/ ContextReturn
  \/ Invoke
  \/ StreamFormatAndLookup
  \/ Consume
  \/ StreamOpen
  \/ StreamChunk
  \/ StreamEnd
  \/ StreamBreaks
  \/ GenReturn
  \/ ClientDisconnect
  \/ DeleteCollection
  \/ ChromaStartSearch
  \/ ChromaFromDocuments
  \/ ChromaFromExisting
  \/ ChromaEmbed
  \/ ChromaSearchOk
  \/ ChromaSearchFails
  \/ ChromaDeleteCollection
  \/ Finish

\* The query side: answers, context look-ups and streams against the index
\* the server holds.
Spec == Init /\ [][Next]_vars

NextStartup ==
  \/ StartServer
  \/ ValidateConfig
  \/ InitializeServices
  \/ InitInfo
  \/ InitExists
  \/ InitCreate
  \/ SetupMiddleware
  \/ SetupRoutes
  \/ SetupErrorHandling
  \/ Listen
  \/ Exit

\* The start of the server process: index.js from `server.start()` to the
\* listening socket or to process.exit(1).
SpecStartup == Init /\ [][NextStartup]_vars

NextIngest ==
  \/ StartIngestSample
  \/ StartIngestCustom
  \/ StartResetAndIngest
  \/ StartAdminIngest
  \/ ResetDelete
  \/ InitInfo
  \/ InitExists
  \/ InitCreate
  \/ AddSplit
  \/ AddEmbed
  \/ AddBulk
  \/ DeleteCollection
  \/ Finish

\* The ingestion side: documents are added to, and the index is deleted
\* from, the index the server holds.
SpecIngest == Init /\ [][NextIngest]_vars

NextConcurrent ==
  \/ \E p \in Procs : TaskInitialize(p)
  \/ \E p \in Procs : TaskInfo(p)
  \/ \E p \in Procs : TaskExists(p)
  \/ \E p \in Procs : TaskCreate(p)
  \/ \E p \in Procs : TaskDeleteCollection(p)
  \/ \E p \in Procs : TaskDelete(p)
  \/ \E p \in Procs : TaskSimilaritySearch(p)
  \/ \E p \in Procs : TaskEmbed(p)
  \/ \E p \in Procs : TaskSearch(p)
  \/ \E p \in Procs : TaskReturn(p)

\* Calls of initialize(), deleteCollection() and similaritySearchWithScore()
\* that overlap on the one store object.
SpecConcurrent == Init /\ [][NextConcurrent]_vars


\* ================================================================ claims
IsTerminal(event) == event.type \in {"done", "error"}

Count(seq, x) == Cardinality({i \in 1..Len(seq) : seq[i] = x})

CountType(evs, t) == Cardinality({i \in 1..Len(evs) : evs[i].type = t})

Streaming == req.kind = "stream"

Answering == req.kind \in {"ask", "stream"}

\* The sources of the value askQuestion returned.
ReturnedSources ==
  IF req.includeContext THEN result.value.context.sources ELSE result.value.sources

\* C1 (as stated): whatever happens during retrieval, provider lookup or
\* generation, the first event a streaming answer emits is `metadata` and
\* exactly one `metadata` event is emitted.
C1_FirstEventAlwaysMetadata ==
  (Streaming /\ events # <<>>) =>
    /\ events[1].type = "metadata"
    /\ CountType(events, "metadata") = 1

\* C1 (amended): a streaming answer emits at most one `metadata` event and
\* only as its first event; when retrieval and provider lookup succeed the
\* first event is `metadata`, and when either of them fails the sequence is
\* the single `error` event with no `metadata` at all.
C1_MetadataFirstUnlessLookupFails ==
  Streaming =>
    /\ \A i \in 1..Len(events) : events[i].type = "metadata" => i = 1
    /\ (events # <<>> /\ searched = "ok" /\ ProviderAvailable(req.provider)) =>
          events[1] = [type |-> "metadata",
                       data |-> [documentsUsed |-> Len(relevantDocs),
                                 sources |-> extractSources(relevantDocs),
                                 provider |-> req.provider]]
    /\ (events # <<>> /\ ~(searched = "ok" /\ ProviderAvailable(req.provider))) =>
          (Len(events) = 1 /\ events[1].type = "error")
    /\ (pc \in {"stream_open", "pull"}) => events # <<>>

C1_Witness ==
  /\ Streaming
  /\ pc = "finished"
  /\ Len(events) >= 3
  /\ events[1].type = "metadata"
  /\ events[2].type = "content"

\* C2: a streaming answer consumed to its end holds exactly one terminal
\* event, `done` or `error`, and it is the last one, in the events the
\* generator yielded as well as in the SSE frames POST /stream wrote.
C2_OneTerminalEventLast ==
  Streaming =>
    /\ \A i \in 1..Len(events) : IsTerminal(events[i]) => i = Len(events)
    /\ \A i \in 1..Len(frames) : IsTerminal(frames[i][2]) => i = Len(frames)
    /\ pc = "finished" =>
         /\ events # <<>>
         /\ IsTerminal(events[Len(events)])
         /\ CountType(events, "done") + CountType(events, "error") = 1
    /\ resEnded =>
         /\ frames = [i \in 1..Len(events) |-> Frame(events[i])]
         /\ IsTerminal(frames[Len(frames)][2])

C2_Witness ==
  /\ Streaming
  /\ req.viaRoute
  /\ resEnded
  /\ Len(frames) >= 3
  /\ frames[Len(frames)][2].type = "done"

\* C3: when retrieval, provider lookup or the chat model's stream fails, the
\* last event of the streaming answer is an `error` event carrying the
\* message of that failure, POST /stream writes it as its last frame before
\* res.end(), and no stream is closed without a terminal event.
C3_FailureEndsWithErrorEvent ==
  Streaming =>
    /\ result.status = "caught" =>
         /\ events # <<>>
         /\ events[Len(events)].type = "error"
         /\ events[Len(events)].data.message = result.raised.message
         /\ pc # "finished" => (pending \/ pc = "gen_end")
    /\ (result.status = "caught" /\ resEnded) =>
         /\ frames # <<>>
         /\ frames[Len(frames)][2].type = "error"
         /\ frames[Len(frames)][2].data.message = result.raised.message
    /\ pc = "finished" => (~pending /\ events # <<>> /\ IsTerminal(events[Len(events)]))
    /\ resEnded => (frames # <<>> /\ IsTerminal(frames[Len(frames)][2]))

C3_Witness ==
  /\ Streaming
  /\ req.viaRoute
  /\ resEnded
  /\ result.status = "caught"
  /\ Len(frames) >= 3
  /\ frames[Len(frames)][2].type = "error"

\* C4: when retrieval returns zero records a blocking answer does not fail
\* for that reason: the context is the fixed sentinel, the chat model is
\* still invoked (with the sentinel as context) whenever its provider is
\* registered, and the returned list of sources is empty.
C4_EmptyRetrievalDegrades ==
  (req.kind = "ask" /\ searched = "ok" /\ relevantDocs = <<>>) =>
    /\ pc \in {"format", "invoke", "finished"}
    /\ pc \in {"invoke", "finished"} => formattedContext = <<Sentinel>>
    /\ result.status = "thrown" => result.raised \in {LLMErr, ProviderErr(req.provider)}
    /\ (pc = "finished" /\ ProviderAvailable(req.provider)) =>
         (Count(calls, "invoke") = 1 /\ prompt = << <<Sentinel>> >>)
    /\ result.status = "returned" =>
         (ReturnedSources = <<>> /\ result.value.response = <<"answer to", Sentinel>>)

C4_Witness ==
  /\ req.kind = "ask"
  /\ req.k > 0
  /\ searched = "ok"
  /\ relevantDocs = <<>>
  /\ result.status = "returned"
  /\ prompt = << <<Sentinel>> >>

\* C5 (as stated): when the bulk response reports N of the M submitted
\* records as rejected, the count returned to the caller (chunksCreated) is
\* M - N, the number of chunks that were indexed.
C5_PartialInsertAccounting ==
  (req.kind = "ingest" /\ pc = "finished" /\ result.status = "returned") =>
    result.value.chunksCreated = Len(processedDocs) - Len(erroredDocuments)

C7_FailedSearchIsNeverEmptyResult ==
  searched = "failed" =>
    /\ result.status \in {"thrown", "caught"}
    /\ result.raised \in {ConnErr, BadQueryErr}
    /\ formattedContext = <<>>
    /\ prompt = <<>>
    /\ http.status # 200
    /\ CountType(events, "metadata") = 0
    /\ CountType(events, "done") = 0

C7_Witness ==
  /\ req.kind = "context"
  /\ searched = "failed"
  /\ result.status = "thrown"
  /\ http.status = 500
  /\ index # <<>>

\* C8: nothing is retried inside one answer request: query embedding, k-NN
\* search and chat-model invocation are each attempted at most once, and once
\* a failure was raised no further external call is made for the request.
C8_NoRetry ==
  [][ /\ (req'.kind \in {"ask", "context", "stream"}) =>
            \A c \in {"info", "exists", "create", "embed", "search", "invoke", "stream"} :
               Count(calls', c) <= 1
      /\ (req.kind \in {"ask", "context", "stream"} /\ result.status \in {"thrown", "caught"}) =>
            (calls' = calls \/ (pc' = "idle" /\ calls' = <<>>))
      /\ (req.kind \in {"ask", "context", "stream"} /\ result.status \in {"thrown", "caught"}) =>
            (pulled' = pulled \/ pc' = "idle")
    ]_vars

C8_Witness ==
  /\ req.kind = "ask"
  /\ result.status = "thrown"
  /\ result.raised = LLMErr
  /\ calls = <<"embed", "search", "invoke">>

\* C9: within one answer request the chat model is invoked only after
\* retrieval succeeded and the context was formatted from its result, in the
\* order embed, search, generate, and never when retrieval failed.
C9_RetrieveFormatGenerate ==
  Answering =>
    \A i \in 1..Len(calls) :
      calls[i] \in {"invoke", "stream"} =>
        /\ searched = "ok"
        /\ formattedContext = formatContext(relevantDocs)
        /\ prompt = <<formatContext(relevantDocs)>>
        /\ \E j \in 1..(i - 1) :
             /\ calls[j] = "search"
             /\ \E h \in 1..(j - 1) : calls[h] = "embed"

C9_Witness ==
  /\ req.kind = "ask"
  /\ result.status = "returned"
  /\ relevantDocs # <<>>
  /\ calls = <<"info", "exists", "embed", "search", "invoke">>

\* C10 (as stated): once the HTTP client of POST /stream has disconnected,
\* no further `content` event is emitted and no further fragment is pulled
\* from the chat model's stream.
C10_DisconnectStopsTheStream ==
  [][ (Streaming /\ req.viaRoute /\ ~clientConnected /\ pc # "finished") =>
        /\ pulled' = pulled
        /\ CountType(events', "content") = CountType(events, "content")
    ]_vars

\* C11 (as stated): no answer request performs retrieval and only afterwards
\* fails because its provider name is not registered: a request that fails on
\* the provider lookup has embedded and searched nothing.
C11_UnknownProviderFailsBeforeRetrieval ==
  (Answering /\ result.status \in {"thrown", "caught"}
             /\ result.raised = ProviderErr(req.provider)) =>
    /\ Count(calls, "embed") = 0
    /\ Count(calls, "search") = 0

\* C12 (as stated): in every vector store of the repository, each entry of a
\* retrieval result carries 1 minus the raw score the index reported for
\* that hit, and the entries keep the order of the index's answer.
C12_ScoreIsOneMinusRawInEveryStore ==
  searched = "ok" =>
    /\ Len(relevantDocs) = Len(hits)
    /\ \A i \in 1..Len(hits) :
         /\ relevantDocs[i].doc.pageContent = hits[i].content
         /\ relevantDocs[i].score = One - hits[i].raw

\* C12 (amended): every retrieval result keeps the entries and the order of
\* the index's answer; the OpenSearch store returns 1 minus the raw score of
\* each hit (raw [0.9, 0.7] gives [0.1, 0.3]), the Chroma store returns the
\* distance the library reported for each hit, unchanged.
C12_ScorePerStore ==
  searched = "ok" =>
    /\ Len(relevantDocs) = Len(hits)
    /\ \A i \in 1..Len(hits) :
         /\ relevantDocs[i].doc.pageContent = hits[i].content
         /\ relevantDocs[i].doc.source = hits[i].source
         /\ store = "opensearch" => relevantDocs[i].score = One - hits[i].raw
         /\ store = "chroma" => relevantDocs[i].score = hits[i].raw

C12_Witness ==
  /\ store = "opensearch"
  /\ searched = "ok"
  /\ Len(hits) = 2
  /\ hits[1].raw = 9
  /\ hits[2].raw = 7
  /\ relevantDocs[1].score = 1
  /\ relevantDocs[2].score = 3

\* C13 (as stated): an insert of vectors whose dimension differs from the
\* dimension of the index is rejected with an error raised to the caller of
\* the insert; nothing of it is stored and it is not reported as indexed.
C13_DimensionMismatchIsRaised ==
  (req.kind = "ingest" /\ pc = "finished" /\ processedDocs # <<>>
                       /\ Count(calls, "bulk") = 1 /\ dimension # EmbeddingDimension) =>
    /\ result.status = "thrown"
    /\ http.status = 500

\* C14 (as stated): index creation fails when an index of the same name
\* exists with another vector dimension than the requested one: initialize()
\* never completes (raising the flag) over such an index.
C14_ExistingIndexOfOtherDimensionFails ==
  (store = "opensearch" /\ initialized /\ indexExists) => dimension = Dimension

\* C15 (as stated): when two calls of initialize() race to create the same
\* absent index, neither of them fails because of the other: no caller's
\* create request is refused because the index already exists.
C15_ConcurrentCreationIsSafe ==
  \A p \in Procs : tasks[p].op = "initialize" => tasks[p].error # AlreadyExistsErr

\* C16: createIndexIfNotExists is idempotent: a call that finds the index
\* present issues no create request and leaves the index, its dimension and
\* its records as they were, however many calls came before it.
C16_CreateIndexIfNotExistsIdempotent ==
  [][ \A p \in Procs :
        (TaskAt(p, "initialize", "exists") /\ indexExists /\ tasks'[p] # tasks[p]) =>
          /\ tasks'[p].pc = "done"
          /\ ~tasks'[p].created
          /\ tasks'[p].outcome = "ok" \/ tasks'[p].error = ConnErr
          /\ indexExists'
          /\ index' = index
          /\ dimension' = dimension
    ]_vars

C16_Witness ==
  /\ index = SeedIndex
  /\ initialized
  /\ \A p \in Procs :
       /\ TaskAt(p, "initialize", "done")
       /\ tasks[p].outcome = "ok"
       /\ ~tasks[p].created

\* C17 (as stated): deleteCollection called while the index is absent
\* completes without error, whatever the value of the initialized flag: no
\* call fails because there is no index to delete.
C17_DeleteOfAbsentIndexSucceeds ==
  \A p \in Procs : tasks[p].op = "delete" => tasks[p].error # NotFoundErr

\* C18 (as stated): k = 0 is a permitted value: an answer or context request
\* with maxContextDocs = 0 does not fail because of it, so on an index of the
\* right dimension its retrieval fails only when the server cannot be reached.
C18_ZeroKIsPermitted ==
  (req.kind \in {"ask", "context"} /\ req.k = 0 /\ dimension = EmbeddingDimension
                                   /\ searched = "failed" /\ result.status = "thrown") =>
    result.raised = ConnErr

\* What relevanceScores is when it mirrors the retrieval result: one entry
\* per retrieved record, in the same order, with that record's score.
MirrorOf(docs) ==
  [i \in 1..Len(docs) |->
     [source |-> (IF docs[i].doc.source # NoSource THEN docs[i].doc.source ELSE Unknown),
      score |-> docs[i].score]]

FirstSeen(docs, s) ==
  CHOOSE j \in 1..Len(docs) :
    docs[j].doc.source = s /\ \A h \in 1..(j - 1) : docs[h].doc.source # s

\* C20: extractSources returns each source identifier found in the results
\* exactly once, in the order of first appearance, and nothing that is not a
\* source of some result; results without a source contribute nothing.
C20_ExtractSourcesDistinctFirstSeen ==
  searched = "ok" =>
    LET out == extractSources(relevantDocs)
    IN  /\ Injective(out)
        /\ {out[i] : i \in 1..Len(out)}
             = {relevantDocs[j].doc.source : j \in 1..Len(relevantDocs)} \ {NoSource}
        /\ \A a, b \in 1..Len(out) :
             a < b => FirstSeen(relevantDocs, out[a]) < FirstSeen(relevantDocs, out[b])
        /\ (req.kind = "context" /\ result.status = "returned") => result.value.sources = out

C20_Witness ==
  /\ req.kind = "context"
  /\ result.status = "returned"
  /\ Len(relevantDocs) = 2
  /\ relevantDocs[1].doc.source = relevantDocs[2].doc.source
  /\ result.value.sources = <<"otel-docs-instrumentation">>

\* The number of tokens from the start of one block to the start of the
\* next: the seven tokens of a block and the delimiter.
BlockStride == Len(<<"Source: ", Unknown, " (Relevance: ">> \o toFixed3(One) \o <<")\n", <<>>, Delimiter>>)

\* C21: for a non-empty retrieval result the formatted context is exactly
\* one 'Source: ... (Relevance: ...)' block per retrieved record, in the
\* order of the results, joined by the delimiter: no record is dropped,
\* duplicated, filtered by score or reordered.
C21_OneBlockPerRecordInOrder ==
  (searched = "ok" /\ relevantDocs # <<>> /\ formattedContext # <<>>) =>
    LET n == Len(relevantDocs)
        at(i) == BlockStride * (i - 1)
    IN  /\ Len(formattedContext) = BlockStride * n - 1
        /\ \A i \in 1..n :
             /\ formattedContext[at(i) + 1] = "Source: "
             /\ formattedContext[at(i) + 2] =
                  (IF hits[i].source # NoSource THEN hits[i].source ELSE Unknown)
             /\ formattedContext[at(i) + 3] = " (Relevance: "
             /\ formattedContext[at(i) + 5] = (One - hits[i].raw) * 100
             /\ formattedContext[at(i) + 6] = ")\n"
             /\ formattedContext[at(i) + 7] = hits[i].content
             /\ i < n => formattedContext[at(i) + BlockStride] = Delimiter

C21_Witness ==
  /\ req.kind = "ask"
  /\ result.status = "returned"
  /\ Len(relevantDocs) = 2
  /\ relevantDocs[1].score < relevantDocs[2].score
  /\ relevantDocs[2].doc.source = NoSource
  /\ Len(formattedContext) = 2 * BlockStride - 1

\* The positions in processedDocs of the chunks of the d-th document of the
\* call: they follow the chunks of the documents before it.
ChunksBefore(d) == SumChunks(SubSeq(req.documents, 1, d - 1))

\* C22: the chunks of every ingested document carry the index values
\* 0, 1, ..., total - 1, each once and in order, and every chunk's total is
\* the number of chunks of its document, also with several documents in one
\* call; the records the server stores carry the same values.
C22_ChunkIndexContiguous ==
  (req.kind \in {"ingest", "admin_ingest"} /\ processedDocs # <<>>) =>
    /\ Len(processedDocs) = SumChunks(req.documents)
    /\ \A d \in 1..Len(req.documents) :
         \A i \in 1..req.documents[d].nChunks :
           /\ processedDocs[ChunksBefore(d) + i].chunk_index = i - 1
           /\ processedDocs[ChunksBefore(d) + i].chunk_total = req.documents[d].nChunks
    /\ \A j \in 1..Len(processedDocs) :
         processedDocs[j].chunk_index \in 0..(processedDocs[j].chunk_total - 1)
    /\ \A j \in 1..Len(index) :
         index[j].chunk_index \in 0..(index[j].chunk_total - 1)

C22_Witness ==
  /\ req.kind = "ingest"
  /\ ~req.reset
  /\ pc = "finished"
  /\ result.status = "returned"
  /\ Len(req.documents) = 2
  /\ Len(processedDocs) = 4
  /\ index = processedDocs
  /\ processedDocs[3].chunk_index = 0
  /\ processedDocs[4].chunk_index = 1


\* C23: a POST /api/ingest request carrying reset = 'true' has the existing
\* data deleted before anything of it is embedded or indexed, whatever else
\* the body holds (a custom document included); a request without reset
\* deletes nothing.
C23_ResetDeletesBeforeIngest ==
  (req.kind = "ingest") =>
    /\ req.reset =>
         \A j \in 1..Len(calls) :
           calls[j] \in {"embed", "bulk"} => \E i \in 1..(j - 1) : calls[i] = "delete"
    /\ ~req.reset => \A j \in 1..Len(calls) : calls[j] # "delete"


\* C24: start-up runs configuration validation, service initialization (LLM
\* provider, then vector store), middleware set-up, route registration and
\* error handling in that order; the server listens only after all five
\* succeeded, and once a step has failed no later step runs and the server
\* never listens.
StartupOrder ==
  <<"validateConfig", "getAvailableProviders", "setupMiddleware", "setupRoutes",
    "setupErrorHandling", "listen">>

StartupSteps(log) ==
  SelectSeq(log, LAMBDA c : \E i \in 1..Len(StartupOrder) : StartupOrder[i] = c)

StartupInOrder ==
  (req.kind = "startup") =>
    LET steps == StartupSteps(calls)
    IN  /\ steps = SubSeq(StartupOrder, 1, Len(steps))
        /\ \A j \in 1..Len(calls) :
             calls[j] \in {"info", "exists", "create"} =>
               /\ \E i \in 1..(j - 1) : calls[i] = "getAvailableProviders"
               /\ \A i \in 1..(j - 1) : calls[i] # "setupMiddleware"
        /\ (\E j \in 1..Len(calls) : calls[j] = "setupMiddleware") =>
             /\ initialized
             /\ indexExists
             /\ \E j \in 1..Len(calls) : calls[j] = "exists"
        /\ result.status = "thrown" =>
             /\ pc = "finished"
             /\ result.raised # ListenErr => \A j \in 1..Len(calls) : calls[j] # "listen"
        /\ result.status = "returned" => (pc = "finished" /\ steps = StartupOrder)

C25_OmittedProviderIsServed ==
  (req.kind \in {"ask", "stream"} /\ req.provider = Null /\ result.status \in {"thrown", "caught"}) =>
    result.raised # ProviderErr(Null)


\* C26: when resetAndIngest has returned successfully the index holds
\* exactly the records that call produced and the server accepted: nothing
\* that was in the index before the reset is left.
C26_ResetLeavesOnlyNewRecords ==
  (req.kind = "ingest" /\ req.reset /\ ~req.custom /\ result.status = "returned"
     /\ processedDocs # <<>>) =>
    /\ \A i \in 1..Len(index) : \E j \in 1..Len(processedDocs) : index[i] = processedDocs[j]
    /\ Len(index) + Len(erroredDocuments) = Len(processedDocs)


\* C27: under every interleaving of store calls, once a call has
\* initialized the store the flag and the index agree whenever no call is in
\* flight, and no search is run against an index that was deleted.
Quiescent == \A p \in Procs : tasks[p].pc \in {"idle", "done"}

C27_FlagAndIndexAgree ==
  /\ (Quiescent /\ \E p \in Procs : tasks[p].op \in {"initialize", "search"}
                                     /\ tasks[p].pc = "done" /\ tasks[p].outcome = "ok") =>
       (initialized <=> indexExists)
  /\ \A p \in Procs : tasks[p].op = "search" => tasks[p].error # NotFoundErr


\* C28: all the chunks built from one ingested document carry the same
\* document_id, with or without an id in the document's metadata.
C28_ChunksShareDocumentId ==
  (req.kind \in {"ingest", "admin_ingest"} /\ processedDocs # <<>>) =>
    \A d \in 1..Len(req.documents) :
      \A i, j \in 1..req.documents[d].nChunks :
        processedDocs[ChunksBefore(d) + i].document_id = processedDocs[ChunksBefore(d) + j].document_id


\* C29: in a streamed answer that ends with `done`, every `content` event
\* carries a non-empty text and done.tokensGenerated is a number, the sum of
\* the lengths of the texts emitted before it, whatever chunks the chat
\* model streamed (chunks with an empty content included).
RECURSIVE ContentLengthSum(_)
ContentLengthSum(evs) ==
  IF evs = <<>> THEN 0
  ELSE (IF Head(evs).type = "content" THEN Len(Head(evs).data.text) ELSE 0)
       + ContentLengthSum(Tail(evs))

C29_ContentIsTextAndTokensAddUp ==
  (req.kind = "stream" /\ events # <<>> /\ events[Len(events)].type = "done") =>
    /\ \A i \in 1..Len(events) :
         events[i].type = "content" => (events[i].data.isString /\ events[i].data.text # <<>>)
    /\ events[Len(events)].data.tokensGenerated # NaN
    /\ events[Len(events)].data.tokensGenerated = ContentLengthSum(events)


\* C30: when the embedding of a chunk fails during addDocuments the call
\* fails and the index is as it was before the call: no bulk request was
\* sent, so none of the chunks embedded before the failure was inserted.
C30_EmbedFailureLeavesIndexUnchanged ==
  [][(pc = "add_embed" /\ pc' # "add_embed")
       => /\ index' = index
          /\ (pc' = "finished") =>
               /\ result'.status = "thrown"
               /\ result'.raised = EmbedErr
               /\ http'.status = 500
               /\ embedded' < Len(processedDocs)
               /\ \A j \in 1..Len(calls') : calls'[j] # "bulk"
          /\ (pc' # "finished") => (pc' = "add_bulk" /\ embedded' = Len(processedDocs))]_vars

C30_Witness ==
  /\ req.kind = "ingest"
  /\ pc = "finished"
  /\ result.status = "thrown"
  /\ result.raised = EmbedErr
  /\ embedded = 1
  /\ Len(processedDocs) = 2
  /\ index # <<>>

====
